---- MODULE Spec2Model ----
(***************************************************************************)
(* Model of src/email_notifier.py: class EmailNotifier.                    *)
(*                                                                         *)
(* A call of send_rsvp_notification / send_confirmation_to_guest renders   *)
(* an f-string template from two dictionaries and hands it to _send_email, *)
(* which builds a MIME message and drives one SMTP session inside a        *)
(* `with` block wrapped in try / except Exception.                         *)
(*                                                                         *)
(* Python values are tagged records [t, s, n]: t is the type ("str",       *)
(* "int", "none") or "KeyError" for the exception a failed subscript       *)
(* raises; s the string payload (the missing key for a KeyError); n the    *)
(* integer payload.  Dictionaries are functions whose DOMAIN is the set of *)
(* keys that are present.                                                  *)
(***************************************************************************)
EXTENDS Integers, Sequences, FiniteSets, TLC

VARIABLES
    pc,          \* position of the (single-threaded) caller
    calls,       \* number of notify calls started so far
    op,          \* "host" | "guest": the method of the current / last call
    rsvp,        \* rsvp_data of the current / last call
    party,       \* party_data of the current / last call
    subject,     \* local `subject`
    to_email,    \* argument to_email of _send_email
    body,        \* local `html_body`, as its sequence of rendered sections
    steps,       \* wire steps executed by the current / last _send_email
    conns,       \* every SMTP connection ever opened: [call, state]
    server,      \* index in conns of the `with` target, 0 when unbound
    exc,         \* exception in flight / last caught inside _send_email
    sendResult,  \* value returned by _send_email in this call
    ret,         \* value returned by the notify method
    raised       \* key of the KeyError that escaped the notify method, or ""

vars == <<pc, calls, op, rsvp, party, subject, to_email, body, steps,
          conns, server, exc, sendResult, ret, raised>>

\* Number of notify calls explored in one behaviour.
MaxCalls == 2

(***************************************************************************)
(* Python values                                                           *)
(***************************************************************************)
PyStr(s) == [t |-> "str", s |-> s, n |-> 0]
PyInt(n) == [t |-> "int", s |-> "", n |-> n]
PyNone == [t |-> "none", s |-> "", n |-> 0]
KeyError(k) == [t |-> "KeyError", s |-> k, n |-> 0]

\* str(int) for the one-digit integers the model uses.
IntToStr(n) == IF n = 0 THEN "0" ELSE <<"1", "2", "3", "4", "5", "6", "7", "8", "9">>[n]

\* What an f-string replacement field {v} produces: str(v), no escaping.
Format(v) == IF v.t = "str" THEN v.s
             ELSE IF v.t = "int" THEN IntToStr(v.n)
             ELSE "None"

\* Truth value of v in `... if v else ''`.
Truthy_notNone(v) == v.t # "none"
Truthy(v) == IF v.t = "str" THEN v.s # ""
             ELSE IF v.t = "int" THEN v.n # 0
             ELSE FALSE

\* d[k]: raises KeyError when k is absent.
Lookup_tolerant(d, k) == IF k \in DOMAIN d THEN d[k] ELSE PyStr("")
Lookup(d, k) == IF k \in DOMAIN d THEN d[k] ELSE KeyError(k)

\* d.get(k, default)
Get_noDefault(d, k, default) == IF k \in DOMAIN d THEN d[k] ELSE PyNone
Get(d, k, default) == IF k \in DOMAIN d THEN d[k] ELSE default

(***************************************************************************)
(* Inputs: the dictionaries a caller may pass                              *)
(***************************************************************************)
EmptyDict == [k \in {} |-> PyNone]
Field(k, S) == {EmptyDict} \cup {k :> v : v \in S}

StatusValues == {PyStr("yes"), PyStr("no"), PyStr("maybe"), PyStr("Yes")}
TextValues(s) == {PyStr(""), PyStr(s), PyStr("None")}

RsvpRecords ==
    { c @@ p @@ e @@ ph @@ a @@ k @@ ad @@ f @@ m :
        c \in Field("child_name", {PyStr("Sarah")}),
        p \in Field("parent_name", {PyStr("Jennifer Smith")}),
        e \in Field("email", {PyStr("jennifer@email.com")}),
        ph \in Field("phone", {PyStr("(555) 123-4567")}),
        a \in Field("attendance_status", StatusValues),
        k \in Field("number_of_kids", {PyInt(0), PyInt(2)}),
        ad \in Field("number_of_adults", {PyInt(2)}),
        f \in Field("food_allergies", TextValues("nuts")),
        m \in Field("birthday_message", TextValues("Happy Birthday Emma! Can't wait to celebrate with you!")) }

FullParty ==
    [child_name |-> PyStr("Emma"), age |-> PyInt(7),
     party_date |-> PyStr("December 25, 2026"),
     party_time_start |-> PyStr("3:00 PM"),
     party_time_end |-> PyStr("6:00 PM"),
     venue_name |-> PyStr("Happy Kids Party Place"),
     venue_address |-> PyStr("123 Rainbow Street, Funtown, State 12345")]

Without(d, k) == [x \in DOMAIN d \ {k} |-> d[x]]

PartyRecords == {FullParty, Without(FullParty, "venue_address"),
                 Without(FullParty, "child_name")}

\* The reference usage (lines 349-359), a declined invitation with every
\* optional field absent, and a record without an email address.
ExampleRsvp ==
    [child_name |-> PyStr("Sarah"), parent_name |-> PyStr("Jennifer Smith"),
     email |-> PyStr("jennifer@email.com"), phone |-> PyStr("(555) 123-4567"),
     attendance_status |-> PyStr("yes"), number_of_kids |-> PyInt(1),
     number_of_adults |-> PyInt(2), food_allergies |-> PyStr("None"),
     birthday_message |-> PyStr("Happy Birthday Emma! Can't wait to celebrate with you!")]

DeclinedRsvp ==
    [child_name |-> PyStr("Sarah"), parent_name |-> PyStr("Jennifer Smith"),
     email |-> PyStr("jennifer@email.com"), phone |-> PyStr("(555) 123-4567"),
     attendance_status |-> PyStr("no")]

SessionRecords == {ExampleRsvp, DeclinedRsvp, Without(DeclinedRsvp, "email")}

SessionParties == {FullParty}

\* Values of datetime.now().strftime(...)
Times == {"December 01, 2026 at 09:00 AM", "December 02, 2026 at 05:30 PM"}

\* self.email of the constructed notifier
SelfEmail == "your_email@gmail.com"

(***************************************************************************)
(* Templates.  A part is one replacement field of the f-string, in the     *)
(* order Python evaluates them; the first KeyError aborts the call.        *)
(***************************************************************************)
Seg(sec, v) == [sec |-> sec, v |-> v]

\* line 138: the three-way conditional on attendance_status
StatusLabel_noDefault(v) ==
    IF v.t = "KeyError" THEN v
    ELSE IF v = PyStr("yes") THEN PyStr("Coming!")
    ELSE IF v = PyStr("maybe") THEN PyStr("Maybe")
    ELSE PyStr("Cannot Attend")
StatusLabel(v) ==
    IF v.t = "KeyError" THEN v
    ELSE IF v = PyStr("yes") THEN PyStr("Coming!")
    ELSE IF v = PyStr("no") THEN PyStr("Cannot Attend")
    ELSE PyStr("Maybe")

\* lines 149-154
AllergyRow(r) ==
    IF Truthy(Get(r, "food_allergies", PyNone))
    THEN <<Seg("allergy_row", Get(r, "food_allergies", PyStr("None")))>>
    ELSE <<>>

\* lines 157-162
MessageBox(r) ==
    IF Truthy(Get(r, "birthday_message", PyNone))
    THEN <<Seg("message_box", Get(r, "birthday_message", PyStr("")))>>
    ELSE <<>>

HostParts(r, p, now) ==
    <<Seg("subject", Lookup(p, "child_name")),
      Seg("header", Lookup(p, "child_name")),
      Seg("child_name", Lookup(r, "child_name")),
      Seg("parent_name", Lookup(r, "parent_name")),
      Seg("email", Lookup(r, "email")),
      Seg("phone", Lookup(r, "phone")),
      Seg("status_class", Lookup(r, "attendance_status")),
      Seg("status_label", StatusLabel(Lookup(r, "attendance_status"))),
      Seg("kids", Get(r, "number_of_kids", PyInt(1))),
      Seg("adults", Get(r, "number_of_adults", PyInt(1)))>>
    \o AllergyRow(r) \o MessageBox(r)
    \o <<Seg("footer", PyStr(now)),
         Seg("to", PyStr(SelfEmail))>>

\* lines 240-241: 'thrilled' / 'sorry', 'that you can join us' / 'you cannot make it'
Mood(v, yes, other) ==
    IF v.t = "KeyError" THEN v
    ELSE IF v = PyStr("yes") THEN PyStr(yes) ELSE PyStr(other)

\* line 261: the condition of the party-details block
ShowPartyDetails_notNo(r) == Lookup(r, "attendance_status") # PyStr("no")
ShowPartyDetails(r) == Lookup(r, "attendance_status") = PyStr("yes")

\* lines 244-261
PartyDetails(r, p) ==
    IF ShowPartyDetails(r)
    THEN <<Seg("party_details", PyStr("Party Details:")),
           Seg("date", Lookup(p, "party_date")),
           Seg("time_start", Lookup(p, "party_time_start")),
           Seg("time_end", Lookup(p, "party_time_end")),
           Seg("venue_name", Lookup(p, "venue_name")),
           Seg("venue_address", Lookup(p, "venue_address"))>>
    ELSE <<>>

GuestParts(r, p) ==
    <<Seg("subject", Lookup(p, "child_name")),
      Seg("greeting", Lookup(r, "parent_name")),
      Seg("mood", Mood(Lookup(r, "attendance_status"), "thrilled", "sorry")),
      Seg("mood_reason", Mood(Lookup(r, "attendance_status"),
                              "that you can join us", "you cannot make it")),
      Seg("party_child", Lookup(p, "child_name")),
      Seg("age", Lookup(p, "age"))>>
    \o PartyDetails(r, p)
    \o <<Seg("footer", PyStr("See you at the party!")),
         Seg("to", Lookup(r, "email"))>>

\* Index of the first part whose evaluation raises, 0 when none does.
FirstError(parts) ==
    LET bad == {i \in DOMAIN parts : parts[i].v.t = "KeyError"}
    IN IF bad = {} THEN 0 ELSE CHOOSE i \in bad : \A j \in bad : i <= j

PartOf(parts, sec) == parts[CHOOSE i \in DOMAIN parts : parts[i].sec = sec]

IsBodyPart(x) == x.sec \notin {"subject", "to"}

\* html_body: the rendered sections, each replacement field formatted.
BodyOf(parts) ==
    LET sel == SelectSeq(parts, IsBodyPart)
    IN [i \in DOMAIN sel |-> [sec |-> sel[i].sec, val |-> Format(sel[i].v)]]

(***************************************************************************)
(* State                                                                   *)
(***************************************************************************)
Init ==
    /\ pc = "idle"
    /\ calls = 0
    /\ op = "none"
    /\ rsvp = EmptyDict
    /\ party = EmptyDict
    /\ subject = ""
    /\ to_email = ""
    /\ body = <<>>
    /\ steps = <<>>
    /\ conns = <<>>
    /\ server = 0
    /\ exc = ""
    /\ sendResult = "unset"
    /\ ret = "unset"
    /\ raised = ""

\* Entry of a notify method: evaluate subject, html_body and the recipient.
\* A KeyError leaves the method before _send_email is called.
Begin(o, r, p, parts) ==
    LET err == FirstError(parts) IN
    /\ calls' = calls + 1
    /\ op' = o
    /\ rsvp' = r
    /\ party' = p
    /\ steps' = <<>>
    /\ server' = 0
    /\ exc' = ""
    /\ sendResult' = "unset"
    /\ ret' = "unset"
    /\ conns' = conns
    /\ IF err # 0
       THEN /\ raised' = parts[err].v.s
            /\ subject' = ""
            /\ to_email' = ""
            /\ body' = <<>>
            /\ pc' = "idle"
       ELSE /\ raised' = ""
            /\ subject' = Format(PartOf(parts, "subject").v)
            /\ to_email' = Format(PartOf(parts, "to").v)
            /\ body' = BodyOf(parts)
            /\ pc' = "build"

\* send_rsvp_notification(rsvp_data, party_data), lines 30-174
HostCall(r, p, now) ==
    /\ pc = "idle"
    /\ calls < MaxCalls
    /\ Begin("host", r, p, HostParts(r, p, now))

\* send_confirmation_to_guest(rsvp_data, party_data), lines 176-273
GuestCall(r, p) ==
    /\ pc = "idle"
    /\ calls < MaxCalls
    /\ Begin("guest", r, p, GuestParts(r, p))

\* A session: the caller invokes the two methods any number of times.
send_rsvp_notification ==
    \E r \in SessionRecords, p \in SessionParties, now \in Times :
        HostCall(r, p, now)

send_confirmation_to_guest ==
    \E r \in SessionRecords, p \in SessionParties : GuestCall(r, p)

\* One call on the dictionaries the caller holds.
RenderHost == calls = 0 /\ \E now \in Times : HostCall(rsvp, party, now)

RenderGuest == calls = 0 /\ GuestCall(rsvp, party)

Step(name, ok) == [step |-> name, ok |-> ok, conn |-> server]

\* lines 281-288: MIMEMultipart, headers, MIMEText, attach
BuildMessage ==
    /\ pc = "build"
    /\ \E ok \in BOOLEAN :
          /\ steps' = Append(steps, Step("build", ok))
          /\ IF ok THEN pc' = "connect" /\ exc' = exc
                   ELSE pc' = "except" /\ exc' = "build"
    /\ UNCHANGED <<calls, op, rsvp, party, subject, to_email, body, conns,
                   server, sendResult, ret, raised>>

\* line 291: smtplib.SMTP(host, port); a failed constructor leaves no
\* connection behind and the with block is never entered.
Connect ==
    /\ pc = "connect"
    /\ \E ok \in BOOLEAN :
          /\ steps' = Append(steps, Step("connect", ok))
          /\ IF ok
             THEN /\ conns' = Append(conns, [call |-> calls, state |-> "open"])
                  /\ server' = Len(conns) + 1
                  /\ pc' = "starttls"
                  /\ exc' = exc
             ELSE /\ conns' = conns
                  /\ server' = server
                  /\ pc' = "except"
                  /\ exc' = "connect"
    /\ UNCHANGED <<calls, op, rsvp, party, subject, to_email, body,
                   sendResult, ret, raised>>

\* A statement of the with body: on failure control leaves the block.
WithStep(name, next) ==
    /\ pc = name
    /\ \E ok \in BOOLEAN :
          /\ steps' = Append(steps, Step(name, ok))
          /\ IF ok THEN pc' = next /\ exc' = exc
                   ELSE pc' = "exit" /\ exc' = name
    /\ UNCHANGED <<calls, op, rsvp, party, subject, to_email, body, conns,
                   server, sendResult, ret, raised>>

\* line 292
StartTLS_ignoreFailure ==
    /\ pc = "starttls"
    /\ \E ok \in BOOLEAN : steps' = Append(steps, Step("starttls", ok))
    /\ pc' = "login"
    /\ UNCHANGED <<calls, op, rsvp, party, subject, to_email, body, conns,
                   server, exc, sendResult, ret, raised>>
StartTLS == WithStep("starttls", "login")

\* line 293
Login == WithStep("login", "send")

\* line 294
SendMessage == WithStep("send", "exit")

\* Leaving the with block (SMTP.__exit__): QUIT is sent and the socket is
\* closed whatever happens; a rejected QUIT raises, and an exception raised
\* in the body stays in flight.
Exit_leak ==
    /\ pc = "exit"
    /\ \E quitOk \in BOOLEAN :
          /\ steps' = Append(steps, Step("close", quitOk))
          /\ conns' = IF exc = ""
                      THEN [conns EXCEPT ![server].state = "closed"]
                      ELSE conns
          /\ IF exc = "" /\ quitOk
             THEN pc' = "success" /\ exc' = exc
             ELSE pc' = "except" /\ exc' = IF quitOk THEN exc ELSE "quit"
    /\ UNCHANGED <<calls, op, rsvp, party, subject, to_email, body, server,
                   sendResult, ret, raised>>
Exit ==
    /\ pc = "exit"
    /\ \E quitOk \in BOOLEAN :
          /\ steps' = Append(steps, Step("close", quitOk))
          /\ conns' = [conns EXCEPT ![server].state = "closed"]
          /\ IF exc = "" /\ quitOk
             THEN pc' = "success" /\ exc' = exc
             ELSE pc' = "except" /\ exc' = IF quitOk THEN exc ELSE "quit"
    /\ UNCHANGED <<calls, op, rsvp, party, subject, to_email, body, server,
                   sendResult, ret, raised>>

\* lines 296-297, then lines 174 / 273: the notify method drops the value
\* of _send_email and falls off its end, returning None.
ReturnTrue ==
    /\ pc = "success"
    /\ sendResult' = "True"
    /\ ret' = "None"
    /\ server' = 0
    /\ pc' = "idle"
    /\ UNCHANGED <<calls, op, rsvp, party, subject, to_email, body, steps,
                   conns, exc, raised>>

CountSteps(name) == Cardinality({i \in DOMAIN steps : steps[i].step = name})

\* lines 299-301, then lines 174 / 273
Except_reraise ==
    /\ pc = "except"
    /\ raised' = exc
    /\ server' = 0
    /\ pc' = "idle"
    /\ UNCHANGED <<calls, op, rsvp, party, subject, to_email, body, steps,
                   conns, exc, sendResult, ret>>
Except_retry ==
    /\ pc = "except"
    /\ IF CountSteps("build") < 2
       THEN /\ pc' = "build"
            /\ exc' = ""
            /\ server' = 0
            /\ UNCHANGED <<sendResult, ret>>
       ELSE /\ sendResult' = "False"
            /\ ret' = "None"
            /\ server' = 0
            /\ pc' = "idle"
            /\ exc' = exc
    /\ UNCHANGED <<calls, op, rsvp, party, subject, to_email, body, steps,
                   conns, raised>>
Except ==
    /\ pc = "except"
    /\ sendResult' = "False"
    /\ ret' = "None"
    /\ server' = 0
    /\ pc' = "idle"
    /\ UNCHANGED <<calls, op, rsvp, party, subject, to_email, body, steps,
                   conns, exc, raised>>

Next ==
    \/ send_rsvp_notification
    \/ send_confirmation_to_guest
    \/ BuildMessage
    \/ Connect
    \/ StartTLS
    \/ Login
    \/ SendMessage
    \/ Exit
    \/ ReturnTrue
    \/ Except

Spec == Init /\ [][Next]_vars

\* Every record a caller may pass, rendered and sent once.
InitRender ==
    /\ pc = "idle"
    /\ calls = 0
    /\ op = "none"
    /\ rsvp \in RsvpRecords
    /\ party \in PartyRecords
    /\ subject = ""
    /\ to_email = ""
    /\ body = <<>>
    /\ steps = <<>>
    /\ conns = <<>>
    /\ server = 0
    /\ exc = ""
    /\ sendResult = "unset"
    /\ ret = "unset"
    /\ raised = ""

NextRender ==
    \/ RenderHost
    \/ RenderGuest
    \/ BuildMessage
    \/ Connect
    \/ StartTLS
    \/ Login
    \/ SendMessage
    \/ Exit
    \/ ReturnTrue
    \/ Except

SpecRender == InitRender /\ [][NextRender]_vars

(***************************************************************************)
(* Properties                                                              *)
(***************************************************************************)
\* The notify method of the last call is over (returned or raised).
Done == pc = "idle" /\ calls > 0

HasSec(b, sec) == \E i \in DOMAIN b : b[i].sec = sec
SecVals(b, sec) == {b[i].val : i \in {j \in DOMAIN b : b[j].sec = sec}}
SecCount(b, sec) == Cardinality({i \in DOMAIN b : b[i].sec = sec})

StepOk(name) == \E i \in DOMAIN steps : steps[i].step = name /\ steps[i].ok
StepFailed(name) == \E i \in DOMAIN steps : steps[i].step = name /\ ~steps[i].ok

WireOrder == <<"build", "connect", "starttls", "login", "send", "close">>
Rank(name) == CHOOSE i \in DOMAIN WireOrder : WireOrder[i] = name

NonOptional == {"child_name", "parent_name", "email", "phone", "attendance_status"}
Optional == {"number_of_kids", "number_of_adults", "food_allergies", "birthday_message"}

\* The keys each method subscripts with rsvp_data[...].
Subscripted(o) == IF o = "host" THEN NonOptional
                  ELSE {"parent_name", "attendance_status", "email"}

\* C1: when a notify call has run _send_email and returned, the value it
\* returns is the boolean _send_email returned (true exactly on success).
C1_ReturnsSendResult ==
    (Done /\ sendResult # "unset") => ret = sendResult

\* C2: whatever step of _send_email fails (build, connect, STARTTLS, login,
\* send, or the QUIT on leaving the with block), no exception reaches the
\* caller and the result is False; the result is True only when every step
\* succeeded.
C2_FailureBecomesFalse ==
    (Done /\ steps # <<>>) =>
        /\ raised = ""
        /\ sendResult \in {"True", "False"}
        /\ (\E i \in DOMAIN steps : ~steps[i].ok) => sendResult = "False"
        /\ sendResult = "True" =>
              /\ [i \in DOMAIN steps |-> steps[i].step] = WireOrder
              /\ \A i \in DOMAIN steps : steps[i].ok

C2_Witness ==
    /\ Done
    /\ StepFailed("login")
    /\ sendResult = "False"
    /\ raised = ""

\* C3: once _send_email has returned, no connection is open, whichever
\* step failed.
C3_ConnectionClosed ==
    pc = "idle" => \A i \in DOMAIN conns : conns[i].state = "closed"

C3_Witness ==
    /\ Done
    /\ conns # <<>>
    /\ conns[Len(conns)].call = calls
    /\ StepFailed("starttls")
    /\ conns[Len(conns)].state = "closed"

\* C4: the wire steps of one call occur in the order build, connect,
\* STARTTLS, login, send, close, each at most once; send happens only after
\* connect, STARTTLS and login succeeded, login only after STARTTLS
\* succeeded, and a failed step is followed by nothing but close.
C4_WireOrder ==
    /\ \A i, j \in DOMAIN steps :
          i < j => Rank(steps[i].step) < Rank(steps[j].step)
    /\ \A i \in DOMAIN steps :
          /\ steps[i].step = "send" =>
                \A n \in {"connect", "starttls", "login"} :
                    \E j \in 1..(i - 1) : steps[j].step = n /\ steps[j].ok
          /\ steps[i].step = "login" =>
                \E j \in 1..(i - 1) : steps[j].step = "starttls" /\ steps[j].ok
          /\ ~steps[i].ok =>
                \A j \in DOMAIN steps : j > i => steps[j].step = "close"

C4_Witness ==
    /\ Done
    /\ StepOk("send")
    /\ StepOk("close")
    /\ sendResult = "True"

\* C5: every call opens at most one connection and attempts at most one
\* transmission; no step is repeated, and every step of a call acts on the
\* connection that call opened.
C5_OneConnectionOneSend ==
    /\ \A n \in {"build", "connect", "starttls", "login", "send", "close"} :
          CountSteps(n) <= 1
    /\ \A i, j \in DOMAIN conns : i # j => conns[i].call # conns[j].call
    /\ \A i \in DOMAIN steps :
          steps[i].conn # 0 => conns[steps[i].conn].call = calls
    /\ server # 0 => conns[server].call = calls

C5_Witness ==
    /\ Done
    /\ calls = 2
    /\ Len(conns) = 2
    /\ conns[1].call = 1
    /\ conns[2].call = 2
    /\ StepOk("send")

DetailSections == {"party_details", "date", "time_start", "time_end",
                   "venue_name", "venue_address"}

\* C6: the guest confirmation body contains the party-details block (date,
\* time, venue) if and only if attendance_status is "yes".
C6_DetailsIffYes ==
    (op = "guest" /\ body # <<>>) =>
        LET shown == {x \in DetailSections : HasSec(body, x)}
        IN IF rsvp["attendance_status"].s = "yes"
           THEN shown = DetailSections
           ELSE shown = {}

C6_Witness ==
    /\ Done
    /\ op = "guest"
    /\ body # <<>>
    /\ rsvp["attendance_status"].s = "yes"
    /\ HasSec(body, "party_details")
    /\ SecVals(body, "venue_name") = {"Happy Kids Party Place"}

\* C7: the host notification body carries exactly one status label:
\* "Coming!" for "yes", "Cannot Attend" for "no", "Maybe" for anything else.
C7_StatusLabel ==
    (op = "host" /\ body # <<>>) =>
        /\ SecCount(body, "status_label") = 1
        /\ SecVals(body, "status_label") =
              {IF rsvp["attendance_status"].s = "yes" THEN "Coming!"
               ELSE IF rsvp["attendance_status"].s = "no" THEN "Cannot Attend"
               ELSE "Maybe"}

C7_Witness ==
    /\ Done
    /\ op = "host"
    /\ body # <<>>
    /\ rsvp["attendance_status"].s = "Yes"
    /\ SecVals(body, "status_label") = {"Maybe"}

SectionOf(f) == IF f = "food_allergies" THEN "allergy_row" ELSE "message_box"

\* C8: the host notification body has the allergy row (message block) if
\* and only if food_allergies (birthday_message) is present and non-empty,
\* and the section then carries the value verbatim.
C8_OptionalSections ==
    (op = "host" /\ body # <<>>) =>
        \A f \in {"food_allergies", "birthday_message"} :
            /\ HasSec(body, SectionOf(f)) <=>
                  (f \in DOMAIN rsvp /\ rsvp[f].s # "")
            /\ HasSec(body, SectionOf(f)) =>
                  /\ SecCount(body, SectionOf(f)) = 1
                  /\ SecVals(body, SectionOf(f)) = {rsvp[f].s}

C8_Witness ==
    /\ Done
    /\ op = "host"
    /\ SecVals(body, "allergy_row") = {"nuts"}
    /\ "birthday_message" \in DOMAIN rsvp
    /\ rsvp["birthday_message"].s = ""
    /\ ~HasSec(body, "message_box")

\* C9: with the non-optional fields present, any subset of number_of_kids,
\* number_of_adults, food_allergies, birthday_message may be absent: the
\* call raises nothing, an absent count renders as 1 and an absent text
\* field leaves its section out.
C9_OptionalAbsent ==
    (Done /\ party = FullParty /\ NonOptional \subseteq DOMAIN rsvp) =>
        /\ raised = ""
        /\ ret # "unset"
        /\ op = "host" =>
              /\ "number_of_kids" \notin DOMAIN rsvp =>
                    SecVals(body, "kids") = {"1"}
              /\ "number_of_adults" \notin DOMAIN rsvp =>
                    SecVals(body, "adults") = {"1"}
              /\ "food_allergies" \notin DOMAIN rsvp =>
                    ~HasSec(body, "allergy_row")
              /\ "birthday_message" \notin DOMAIN rsvp =>
                    ~HasSec(body, "message_box")

C9_Witness ==
    /\ Done
    /\ op = "host"
    /\ party = FullParty
    /\ DOMAIN rsvp = NonOptional
    /\ raised = ""
    /\ SecVals(body, "kids") = {"1"}
    /\ SecVals(body, "adults") = {"1"}

\* C10 as stated: whichever RSVP fields are absent, the call completes
\* without raising.
C10_AbsentFieldsTolerated ==
    (Done /\ party = FullParty) => raised = ""

\* C10 amended: only the fields read with .get (the four optional ones) and
\* the fields a method never reads are tolerated; a call raises KeyError,
\* before any email is attempted, exactly when a field the method
\* subscripts is absent: child_name, parent_name, email, phone or
\* attendance_status for the host notification; parent_name,
\* attendance_status or email for the guest confirmation.
C10_KeyErrorIffSubscriptedAbsent ==
    (Done /\ party = FullParty) =>
        /\ raised # "" <=> ~(Subscripted(op) \subseteq DOMAIN rsvp)
        /\ raised # "" =>
              /\ raised \in Subscripted(op) \ DOMAIN rsvp
              /\ body = <<>>
              /\ steps = <<>>
              /\ sendResult = "unset"

C10_Witness ==
    /\ Done
    /\ op = "guest"
    /\ party = FullParty
    /\ DOMAIN rsvp = (NonOptional \cup Optional) \ {"email"}
    /\ raised = "email"

====
